---------------------------- MODULE Spec2Model ----------------------------
(***************************************************************************)
(* Budget Planner API: three schemas (schemas.py), the HTTP handlers of    *)
(* main.py, and the two storage helpers the handlers import from the       *)
(* `database` module (create_document, get_documents, db).                 *)
(*                                                                         *)
(* One action is one whole HTTP request: query/body decoding, the handler  *)
(* body, and the JSON encoding of what the handler returns.                *)
(***************************************************************************)
EXTENDS Integers, Sequences, FiniteSets, TLC

(***************************************************************************)
(* Bounds of the model.                                                    *)
(***************************************************************************)
\* documents the store may hold, all collections together
MaxDocs == 2
\* collections of the database that are not one of the three of this API
ExtraCollections == 10

(***************************************************************************)
(* Values.  Every JSON / Python / BSON value is a record [k, s, n]: k is   *)
(* the type, s the text of a text-like value, n the number of a number.    *)
(***************************************************************************)
Absent      == [k |-> "absent",   s |-> "", n |-> 0]  \* key not sent
Null        == [k |-> "null",     s |-> "", n |-> 0]  \* JSON null / None
Str(x)      == [k |-> "str",      s |-> x,  n |-> 0]
Num(i)      == [k |-> "num",      s |-> "", n |-> i]
Date(iso)   == [k |-> "date",     s |-> iso, n |-> 0] \* datetime.date
DateTime(iso) == [k |-> "datetime", s |-> iso \o "T00:00:00", n |-> 0] \* datetime
Oid(i)      == [k |-> "oid",      s |-> "", n |-> i]  \* store identifier

\* the calendar dates the model knows, by their ISO text (YYYY-MM-DD)
IsoDates == {"2024-01-05"}

\* str(ObjectId): the identifier's text form
OidStr(v) == Str("oid" \o ToString(v.n))

\* datetime.isoformat(): YYYY-MM-DDTHH:MM:SS, as text
DateTimeIsoformat(v) == Str(v.s)

\* date.isoformat(): the calendar date as YYYY-MM-DD
DateIsoformat(v) == Str(v.s)

(***************************************************************************)
(* schemas.py: field validation.  A body is a record of raw values, Absent *)
(* for a key the client did not send.  Each field validator gives          *)
(* [ok, v]: whether the raw value is accepted and the validated value.     *)
(***************************************************************************)
Accept(v) == [ok |-> TRUE, v |-> v]
Reject    == [ok |-> FALSE, v |-> Null]

\* Optional[str] = Field(None): absent and null give None, text is kept
OptionalStr(raw) ==
    IF raw.k \in {"absent", "null"} THEN Accept(Null)
    ELSE IF raw.k = "str" THEN Accept(raw)
    ELSE Reject

\* str = Field(...): required text
RequiredStr(raw) == IF raw.k = "str" THEN Accept(raw) ELSE Reject

\* RequiredIntIn without the upper bound
RequiredIntInNoMax(raw, lo, hi) ==
    IF raw.k = "num" /\ raw.n >= lo THEN Accept(raw) ELSE Reject

\* int = Field(..., ge=lo, le=hi)
MonthMin == 1
MonthMax == 12
YearMin == 2000
YearMax == 3000
RequiredIntIn(raw, lo, hi) ==
    IF raw.k = "num" /\ raw.n >= lo /\ raw.n <= hi THEN Accept(raw) ELSE Reject

\* Budget.amount: float = Field(..., ge=0)
BudgetAmountMin == 0
BudgetAmountField(raw) ==
    IF raw.k = "num" /\ raw.n >= BudgetAmountMin THEN Accept(raw) ELSE Reject

\* TransactionAmountField with ge=0 in place of gt=0
TransactionAmountFieldGe(raw) ==
    IF raw.k = "num" /\ raw.n >= 0 THEN Accept(raw) ELSE Reject

\* Transaction.amount: float = Field(..., gt=0)
TransactionAmountBound == 0
TransactionAmountField(raw) ==
    IF raw.k = "num" /\ raw.n > TransactionAmountBound THEN Accept(raw) ELSE Reject

\* Transaction.type: Literal["expense", "income"] = Field("expense")
TransactionTypes == {"expense", "income"}
TransactionTypeField(raw) ==
    IF raw.k = "absent" THEN Accept(Str("expense"))
    ELSE IF raw.k = "str" /\ raw.s \in TransactionTypes THEN Accept(raw)
    ELSE Reject

\* Transaction.date: dt_date = Field(...): ISO text parsed to a calendar date
TransactionDateField(raw) ==
    IF raw.k = "str" /\ raw.s \in IsoDates THEN Accept(Date(raw.s)) ELSE Reject

\* A validated model: [ok, errors (the offending fields), record]
Validated(fields) ==
    [ok     |-> \A f \in DOMAIN fields : fields[f].ok,
     errors |-> {f \in DOMAIN fields : ~fields[f].ok},
     record |-> [f \in DOMAIN fields |-> fields[f].v]]

\* Category with a default colour in place of None
CategoryDefaultColor(body) ==
    Validated([name  |-> RequiredStr(body.name),
               color |-> IF body.color.k \in {"absent", "null"}
                         THEN Accept(Str("#000000")) ELSE OptionalStr(body.color)])

Category(body) ==
    Validated([name  |-> RequiredStr(body.name),
               color |-> OptionalStr(body.color)])

Budget(body) ==
    Validated([month    |-> RequiredIntIn(body.month, MonthMin, MonthMax),
               year     |-> RequiredIntIn(body.year, YearMin, YearMax),
               amount   |-> BudgetAmountField(body.amount),
               category |-> OptionalStr(body.category)])

Transaction(body) ==
    Validated([type     |-> TransactionTypeField(body.type),
               amount   |-> TransactionAmountField(body.amount),
               category |-> OptionalStr(body.category),
               note     |-> OptionalStr(body.note),
               date     |-> TransactionDateField(body.date)])

(***************************************************************************)
(* State.                                                                  *)
(***************************************************************************)
VARIABLES
    db,           \* the handle main.py imports: "none" or "handle"
    databaseUrl,  \* whether DATABASE_URL is set in the environment
    store,        \* collection name -> sequence of documents, in insertion order
    nextOid,      \* the next identifier the store assigns
    req,          \* the request handled last
    resp,         \* its response
    posted        \* history: the bodies stored so far, with the ids returned

vars == <<db, databaseUrl, store, nextOid, req, resp, posted>>

CollectionNames == {"transaction", "budget", "category"}

TotalDocs ==
    Len(store["transaction"]) + Len(store["budget"]) + Len(store["category"])

Min(a, b) == IF a <= b THEN a ELSE b

(***************************************************************************)
(* The storage helpers main.py imports from the `database` module, by      *)
(* their contract: create_document inserts the validated record as one new *)
(* document under a store-generated identifier and returns it as text;     *)
(* get_documents answers an exact-match filter with at most `limit`        *)
(* documents in store order; either raises when the store is unreachable.  *)
(***************************************************************************)
\* the exception a storage call raises: no handle, or the store unreachable
StorageError(up) ==
    IF db = "none" THEN "Database not available" ELSE "store unreachable"

\* create_document(collection_name, record): one insert of the serialized
\* record under a fresh identifier; returns the identifier as text.
\* up: whether the store answers this call.
create_document(collection_name, record, up) ==
    LET doc == [f \in DOMAIN record \cup {"_id"} |->
                    IF f = "_id" THEN Oid(nextOid) ELSE record[f]]
    IN  IF db = "none" \/ ~up
        THEN [raised |-> TRUE, msg |-> StorageError(up), id |-> Absent,
              store |-> store, nextOid |-> nextOid]
        ELSE [raised |-> FALSE, msg |-> "", id |-> OidStr(Oid(nextOid)),
              store |-> [store EXCEPT ![collection_name] = Append(@, doc)],
              nextOid |-> nextOid + 1]

\* exact match: every field of the filter equals the stored value
Matches(doc, filter_dict) ==
    \A f \in DOMAIN filter_dict : f \in DOMAIN doc /\ doc[f] = filter_dict[f]

Matching(collection_name, filter_dict) ==
    LET Hit(doc) == Matches(doc, filter_dict)
    IN  SelectSeq(store[collection_name], Hit)

\* get_documents(collection_name, filter, limit): at most `limit` matching
\* documents in store order.  A limit below 0 bounds nothing the helper can
\* return; it then answers with the first k matching documents, any k.
get_documents(collection_name, filter_dict, limit, up, k) ==
    LET m == Matching(collection_name, filter_dict)
        n == IF limit >= 0 THEN Min(limit, Len(m)) ELSE Min(k, Len(m))
    IN  IF db = "none" \/ ~up
        THEN [raised |-> TRUE, msg |-> StorageError(up), docs |-> <<>>]
        ELSE [raised |-> FALSE, msg |-> "", docs |-> SubSeq(m, 1, n)]

\* db.list_collection_names(): the collections that exist in the database
list_collection_names ==
    LET mine == SelectSeq(<<"transaction", "budget", "category">>,
                          LAMBDA c : store[c] # <<>>)
    IN  [i \in 1..ExtraCollections |-> "other" \o ToString(i)] \o mine

(***************************************************************************)
(* main.py: what the handlers share.                                       *)
(***************************************************************************)
NoDiag ==
    [backend |-> "", database |-> "", database_url |-> "",
     database_name |-> "", connection_status |-> "", collections |-> <<>>]

\* a response: HTTP status and JSON body.  kind tells the body's shape:
\* "id" {id}, "items" {items}, "error" {detail}, "diag", "schema", "message"
Response(status, kind) ==
    [status |-> status, kind |-> kind, id |-> Absent, items |-> <<>>,
     detail |-> "", errors |-> {}, diag |-> NoDiag]

\* the except clause answering with an empty listing
ServerErrorAsItems(msg) == [Response(200, "items") EXCEPT !.detail = msg]

\* except Exception as e: raise HTTPException(status_code=500, detail=str(e))
ServerError(msg) == [Response(500, "error") EXCEPT !.detail = msg]

\* the framework's answer to a body or query that fails validation
ValidationError(fields) == [Response(422, "error") EXCEPT !.errors = fields]

\* return {"id": ...}
IdBody(id) == [Response(200, "id") EXCEPT !.id = id]

\* Python truth of an Optional[str]: None and "" are false
Truthy(v) == v.k = "str" /\ v.s # ""

\* a query parameter with default None
OrNone(raw) == IF raw.k = "absent" THEN Null ELSE raw

\* Normalize with the store's "_id" left in the document beside "id"
NormalizeKeepId(d) ==
    [f \in DOMAIN d \cup {"id"} |->
        IF f = "id" THEN OidStr(d["_id"])
        ELSE IF d[f].k = "datetime" THEN DateTimeIsoformat(d[f]) ELSE d[f]]

\* the handlers' loop over docs: "_id" becomes "id" as text, and every
\* datetime value becomes its isoformat text
Normalize(d) ==
    LET d1 == IF "_id" \in DOMAIN d
              THEN [f \in (DOMAIN d \ {"_id"}) \cup {"id"} |->
                        IF f = "id" THEN OidStr(d["_id"]) ELSE d[f]]
              ELSE d
    IN  [f \in DOMAIN d1 |->
            IF d1[f].k = "datetime" THEN DateTimeIsoformat(d1[f]) ELSE d1[f]]

\* the JSON encoding of a returned value: a date or datetime left in the
\* body is written as its isoformat text
JsonValue(v) ==
    IF v.k = "date" THEN DateIsoformat(v)
    ELSE IF v.k = "datetime" THEN DateTimeIsoformat(v)
    ELSE v

\* return {"items": docs}
ItemsBody(docs) ==
    [Response(200, "items") EXCEPT
        !.items = [i \in 1..Len(docs) |->
                      [f \in DOMAIN docs[i] |-> JsonValue(docs[i][f])]]]

NormalizeAll(docs) == [i \in 1..Len(docs) |-> Normalize(docs[i])]

(***************************************************************************)
(* Transactions.                                                           *)
(***************************************************************************)
\* create_transaction writing to the budget collection
TransactionCollectionOther == "budget"

\* the collection create_transaction writes to
TransactionCollection == "transaction"

\* POST /api/transactions
create_transaction(body, up) ==
    LET payload == Transaction(body)
        r == create_document(TransactionCollection, payload.record, up)
    IN  /\ (payload.ok /\ db = "handle" /\ up) => TotalDocs < MaxDocs
        /\ req' = [op |-> "create_transaction", in |-> body, up |-> up, k |-> 0]
        /\ IF ~payload.ok
           THEN /\ resp' = ValidationError(payload.errors)
                /\ UNCHANGED <<store, nextOid>>
           ELSE /\ resp' = IF r.raised THEN ServerError(r.msg) ELSE IdBody(r.id)
                /\ store' = r.store
                /\ nextOid' = r.nextOid
        /\ posted' = IF payload.ok /\ ~r.raised
                     THEN Append(posted, [op |-> "create_transaction", id |-> r.id, body |-> body])
                     ELSE posted
        /\ UNCHANGED <<db, databaseUrl>>

\* TxLimit without le=200
TxLimitNoMax(raw) ==
    LET n == IF raw.k = "absent" THEN 50 ELSE raw.n
    IN  [ok |-> n >= 1, n |-> n]

\* limit: int = Query(50, ge=1, le=200)
TxLimitDefault == 50
TxLimitMin == 1
TxLimitMax == 200
TxLimit(raw) ==
    LET n == IF raw.k = "absent" THEN TxLimitDefault ELSE raw.n
    IN  [ok |-> n >= TxLimitMin /\ n <= TxLimitMax, n |-> n]

\* tx_type: Optional[str] = Query(None, pattern="^(expense|income)$")
TxType(raw) ==
    [ok |-> raw.k = "absent" \/ (raw.k = "str" /\ raw.s \in {"expense", "income"}),
     v  |-> OrNone(raw)]

\* TransactionFilter without its tx_type branch
TransactionFilterNoType(category, tx_type) ==
    [f \in (IF Truthy(category) THEN {"category"} ELSE {}) |-> category]

\* filter_dict of list_transactions
TransactionFilter(category, tx_type) ==
    LET keys == (IF Truthy(category) THEN {"category"} ELSE {})
                \cup (IF Truthy(tx_type) THEN {"type"} ELSE {})
    IN  [f \in keys |-> IF f = "category" THEN category ELSE tx_type]

\* GET /api/transactions.  query: the parameters the client sent, by name;
\* the handler binds limit, category and tx_type, and no other name.
list_transactions(query, up, k) ==
    LET limit == TxLimit(query.limit)
        tx_type == TxType(query.tx_type)
        category == OrNone(query.category)
        bad == (IF limit.ok THEN {} ELSE {"limit"})
               \cup (IF tx_type.ok THEN {} ELSE {"tx_type"})
        r == get_documents("transaction",
                           TransactionFilter(category, tx_type.v), limit.n, up, k)
    IN  /\ req' = [op |-> "list_transactions", in |-> query, up |-> up, k |-> k]
        /\ resp' = IF bad # {} THEN ValidationError(bad)
                   ELSE IF r.raised THEN ServerError(r.msg)
                   ELSE ItemsBody(NormalizeAll(r.docs))
        /\ UNCHANGED <<db, databaseUrl, store, nextOid, posted>>

(***************************************************************************)
(* Budgets.                                                                *)
(***************************************************************************)
\* the collection create_budget writes to
BudgetCollection == "budget"

\* POST /api/budgets
create_budget(body, up) ==
    LET payload == Budget(body)
        r == create_document(BudgetCollection, payload.record, up)
    IN  /\ (payload.ok /\ db = "handle" /\ up) => TotalDocs < MaxDocs
        /\ req' = [op |-> "create_budget", in |-> body, up |-> up, k |-> 0]
        /\ IF ~payload.ok
           THEN /\ resp' = ValidationError(payload.errors)
                /\ UNCHANGED <<store, nextOid>>
           ELSE /\ resp' = IF r.raised THEN ServerError(r.msg) ELSE IdBody(r.id)
                /\ store' = r.store
                /\ nextOid' = r.nextOid
        /\ posted' = IF payload.ok /\ ~r.raised
                     THEN Append(posted, [op |-> "create_budget", id |-> r.id, body |-> body])
                     ELSE posted
        /\ UNCHANGED <<db, databaseUrl>>

\* limit: int = 100, of list_budgets and list_categories
LimitDefault == 100
Limit(raw) == IF raw.k = "absent" THEN LimitDefault ELSE raw.n

\* filter_dict of list_budgets
BudgetFilter(month, year, category) ==
    LET keys == (IF month.k # "null" THEN {"month"} ELSE {})
                \cup (IF year.k # "null" THEN {"year"} ELSE {})
                \cup (IF category.k # "null" THEN {"category"} ELSE {})
    IN  [f \in keys |-> IF f = "month" THEN month
                        ELSE IF f = "year" THEN year ELSE category]

\* GET /api/budgets
list_budgets(query, up, k) ==
    LET r == get_documents("budget",
                           BudgetFilter(OrNone(query.month), OrNone(query.year),
                                        OrNone(query.category)),
                           Limit(query.limit), up, k)
    IN  /\ req' = [op |-> "list_budgets", in |-> query, up |-> up, k |-> k]
        /\ resp' = IF r.raised THEN ServerError(r.msg)
                   ELSE ItemsBody(NormalizeAll(r.docs))
        /\ UNCHANGED <<db, databaseUrl, store, nextOid, posted>>

(***************************************************************************)
(* Categories.                                                             *)
(***************************************************************************)
\* the collection create_category writes to
CategoryCollection == "category"

\* POST /api/categories
create_category(body, up) ==
    LET payload == Category(body)
        r == create_document(CategoryCollection, payload.record, up)
    IN  /\ (payload.ok /\ db = "handle" /\ up) => TotalDocs < MaxDocs
        /\ req' = [op |-> "create_category", in |-> body, up |-> up, k |-> 0]
        /\ IF ~payload.ok
           THEN /\ resp' = ValidationError(payload.errors)
                /\ UNCHANGED <<store, nextOid>>
           ELSE /\ resp' = IF r.raised THEN ServerError(r.msg) ELSE IdBody(r.id)
                /\ store' = r.store
                /\ nextOid' = r.nextOid
        /\ posted' = IF payload.ok /\ ~r.raised
                     THEN Append(posted, [op |-> "create_category", id |-> r.id, body |-> body])
                     ELSE posted
        /\ UNCHANGED <<db, databaseUrl>>

\* GET /api/categories
list_categories(query, up, k) ==
    LET r == get_documents("category", <<>>, Limit(query.limit), up, k)
    IN  /\ req' = [op |-> "list_categories", in |-> query, up |-> up, k |-> k]
        /\ resp' = IF r.raised THEN ServerError(r.msg)
                   ELSE ItemsBody(NormalizeAll(r.docs))
        /\ UNCHANGED <<db, databaseUrl, store, nextOid, posted>>

(***************************************************************************)
(* Diagnostics.                                                            *)
(***************************************************************************)
\* Sample without the slice
SampleAll(names) == names

\* collections[:10]
SampleSize == 10
Sample(names) == SubSeq(names, 1, Min(SampleSize, Len(names)))

\* str(e)[:80]; every message of the model is shorter than 80 characters
MessageHead(msg) == msg

\* the body test_database builds.  up: whether list_collection_names
\* answers.  Nothing outside the inner try raises, so the outer except
\* clause has no case of its own.
test_database_response(up) ==
    LET response == [backend |-> "Running", database |-> "Not Available",
                     database_url |-> "None", database_name |-> "None",
                     connection_status |-> "Not Connected", collections |-> <<>>]
        available == [response EXCEPT
                        !.database = "Available",
                        !.database_url = IF databaseUrl THEN "Set" ELSE "Not Set",
                        !.database_name = "db.name",
                        !.connection_status = "Connected"]
    IN  IF db # "none"
        THEN IF up
             THEN [available EXCEPT !.collections = Sample(list_collection_names),
                                    !.database = "Connected & Working"]
             ELSE [available EXCEPT
                     !.database = "Connected but Error: "
                                  \o MessageHead(StorageError(up))]
        ELSE [response EXCEPT !.database = "Available but not initialized"]

\* GET /test
test_database(up) ==
    /\ req' = [op |-> "test", in |-> <<>>, up |-> up, k |-> 0]
    /\ resp' = [Response(200, "diag") EXCEPT !.diag = test_database_response(up)]
    /\ UNCHANGED <<db, databaseUrl, store, nextOid, posted>>

\* GET /schema
get_schema ==
    /\ req' = [op |-> "schema", in |-> <<>>, up |-> TRUE, k |-> 0]
    /\ resp' = Response(200, "schema")
    /\ UNCHANGED <<db, databaseUrl, store, nextOid, posted>>

\* GET /
read_root ==
    /\ req' = [op |-> "root", in |-> <<>>, up |-> TRUE, k |-> 0]
    /\ resp' = [Response(200, "message") EXCEPT
                    !.detail = "Budget Planner Backend Running"]
    /\ UNCHANGED <<db, databaseUrl, store, nextOid, posted>>

(***************************************************************************)
(* Requests the model sends.                                               *)
(***************************************************************************)
\* Bodies: every valid combination, and a valid body with one field broken
\* (the schema checks each field on its own).
TxBase ==
    [type |-> Absent, amount |-> Num(5), category |-> Absent,
     note |-> Absent, date |-> Str("2024-01-05")]

TxBodies ==
    [type     : {Absent, Str("income")},
     amount   : {Num(5)},
     category : {Absent, Str("food")},
     note     : {Absent, Str("lunch")},
     date     : {Str("2024-01-05")}]
    \cup {[TxBase EXCEPT !.amount = Num(0)], [TxBase EXCEPT !.amount = Num(-1)],
          [TxBase EXCEPT !.amount = Absent], [TxBase EXCEPT !.type = Str("bogus")],
          [TxBase EXCEPT !.date = Absent], [TxBase EXCEPT !.date = Str("2024-13-01")]}

\* Queries, by parameter name as the client sends them: every combination
\* of accepted values, and one with a single parameter out of range.
TxQueryBase ==
    [limit |-> Absent, category |-> Absent, tx_type |-> Absent, type |-> Absent]

TxQueries ==
    [limit    : {Absent, Num(1)},
     category : {Absent, Str(""), Str("food")},
     tx_type  : {Absent, Str("income"), Str("expense")},
     type     : {Absent, Str("income")}]
    \cup {[TxQueryBase EXCEPT !.limit = Num(0)],
          [TxQueryBase EXCEPT !.limit = Num(201)],
          [TxQueryBase EXCEPT !.tx_type = Str("bogus")]}

BudgetBase ==
    [month |-> Num(1), year |-> Num(2000), amount |-> Num(0), category |-> Absent]

BudgetBodies ==
    [month    : {Num(1), Num(12)},
     year     : {Num(2000)},
     amount   : {Num(0)},
     category : {Absent, Str("food")}]
    \cup {[BudgetBase EXCEPT !.month = Num(0)], [BudgetBase EXCEPT !.month = Num(13)],
          [BudgetBase EXCEPT !.year = Num(1999)],
          [BudgetBase EXCEPT !.year = Num(3001)],
          [BudgetBase EXCEPT !.amount = Num(-1)]}

BudgetQueries ==
    [month    : {Absent, Num(0), Num(1)},
     year     : {Absent, Num(2000)},
     category : {Absent, Str(""), Str("food")},
     limit    : {Absent, Num(-1), Num(0), Num(1)}]

CategoryBodies ==
    [name  : {Absent, Str("food"), Str("rent")},
     color : {Absent, Null, Str("#00ff00")}]

CategoryQueries == [limit : {Absent, Num(-1), Num(0), Num(1)}]

\* the listings that send no parameter but, possibly, limit
LimitOnly(queries) ==
    {q \in queries : \A p \in DOMAIN q \ {"limit"} : q[p] = Absent}

\* whether the store answers the call, when the handler gets to call it
Outcomes(called) == IF called THEN BOOLEAN ELSE {TRUE}

\* the prefix lengths get_documents may choose from under a limit below 0
Prefixes(limit, up) == IF limit < 0 /\ up THEN 0..MaxDocs ELSE {0}

\* the bodies that send no optional field
Core(bodies) ==
    {b \in bodies : \A f \in DOMAIN b \cap {"category", "note", "color"} :
                        b[f] = Absent}

TxQueryOk(query) == TxLimit(query.limit).ok /\ TxType(query.tx_type).ok

(***************************************************************************)
(* Specifications.                                                         *)
(***************************************************************************)
Init ==
    /\ db \in {"none", "handle"}
    /\ databaseUrl \in BOOLEAN
    /\ store = [c \in CollectionNames |-> <<>>]
    /\ nextOid = 1
    /\ req = [op |-> "none", in |-> <<>>, up |-> TRUE, k |-> 0]
    /\ resp = Response(0, "none")
    /\ posted = <<>>

\* the endpoints that never read the environment, with DATABASE_URL set
InitConfigured == Init /\ databaseUrl = TRUE

Creates(txBodies, budgetBodies, categoryBodies) ==
    \/ \E body \in txBodies : \E up \in Outcomes(Transaction(body).ok) :
          create_transaction(body, up)
    \/ \E body \in budgetBodies : \E up \in Outcomes(Budget(body).ok) :
          create_budget(body, up)
    \/ \E body \in categoryBodies : \E up \in Outcomes(Category(body).ok) :
          create_category(body, up)

Lists(txQueries, budgetQueries, categoryQueries) ==
    \/ \E query \in txQueries : \E up \in Outcomes(TxQueryOk(query)) :
          list_transactions(query, up, 0)
    \/ \E query \in budgetQueries, up \in BOOLEAN :
          \E k \in Prefixes(Limit(query.limit), up) : list_budgets(query, up, k)
    \/ \E query \in categoryQueries, up \in BOOLEAN :
          \E k \in Prefixes(Limit(query.limit), up) : list_categories(query, up, k)

Diagnostics ==
    \/ \E up \in BOOLEAN : test_database(up)
    \/ get_schema
    \/ read_root

\* every endpoint; the bodies with no optional field, the listings with no
\* filter
Next ==
    \/ Creates(Core(TxBodies), Core(BudgetBodies), Core(CategoryBodies))
    \/ Lists(LimitOnly(TxQueries), LimitOnly(BudgetQueries),
             LimitOnly(CategoryQueries))
    \/ Diagnostics

Spec == Init /\ [][Next]_vars

\* the transaction endpoints, with every query of TxQueries
NextTransactions ==
    \/ \E body \in TxBodies : \E up \in Outcomes(Transaction(body).ok) :
          create_transaction(body, up)
    \/ \E query \in TxQueries : \E up \in Outcomes(TxQueryOk(query)) :
          list_transactions(query, up, 0)

SpecTransactions == InitConfigured /\ [][NextTransactions]_vars

\* the budget endpoints, with every query of BudgetQueries
NextBudgets ==
    \/ \E body \in BudgetBodies : \E up \in Outcomes(Budget(body).ok) :
          create_budget(body, up)
    \/ \E query \in BudgetQueries, up \in BOOLEAN :
          \E k \in Prefixes(Limit(query.limit), up) : list_budgets(query, up, k)

SpecBudgets == InitConfigured /\ [][NextBudgets]_vars

\* the category endpoints and the diagnostics
NextCategories ==
    \/ \E body \in CategoryBodies : \E up \in Outcomes(Category(body).ok) :
          create_category(body, up)
    \/ \E query \in CategoryQueries, up \in BOOLEAN :
          \E k \in Prefixes(Limit(query.limit), up) : list_categories(query, up, k)
    \/ Diagnostics

SpecCategories == Init /\ [][NextCategories]_vars

(***************************************************************************)
(* Properties.                                                             *)
(***************************************************************************)
IsList(op) == req.op = op /\ resp.status = 200 /\ resp.kind = "items"

\* the limit a listing ran with
LimitOf(r) ==
    IF r.op = "list_transactions" THEN TxLimit(r.in.limit).n ELSE Limit(r.in.limit)

\* an optional field as the client sees it: a key not sent reads as null
Sent(raw) == IF raw = Absent THEN Null ELSE raw

\* the type a transaction body asks for
TypeOf(body) == IF body.type = Absent THEN Str("expense") ELSE body.type

\* a query parameter that is not sent, or equals the value
Admits(param, value) == param = Absent \/ param = value

\* the item of the response that carries the id
ItemsWithId(id) ==
    {j \in 1..Len(resp.items) :
        "id" \in DOMAIN resp.items[j] /\ resp.items[j]["id"] = id}

\* C1: a transaction that was posted comes back from a listing whose
\* category / tx_type parameters admit it and whose limit covers the
\* collection: one item with the posted type, amount, category, note and
\* date, the date as text, a text id (the one the POST returned), no "_id".
C1_RoundTrip ==
    IsList("list_transactions") =>
        \A i \in 1..Len(posted) :
            LET b == posted[i].body
                q == req.in
            IN  ( /\ posted[i].op = "create_transaction"
                  /\ Admits(q.category, Sent(b.category))
                  /\ Admits(q.tx_type, TypeOf(b))
                  /\ Len(store["transaction"]) <= LimitOf(req) )
                => \E j \in ItemsWithId(posted[i].id) :
                      LET it == resp.items[j]
                      IN  /\ "_id" \notin DOMAIN it
                          /\ it["id"].k = "str"
                          /\ it["type"] = TypeOf(b)
                          /\ it["amount"] = b.amount
                          /\ it["category"] = Sent(b.category)
                          /\ it["note"] = Sent(b.note)
                          /\ it["date"].k = "str"
                          /\ it["date"] = b.date

\* C1 witness: two transactions are stored, the listing filters on category
\* and tx_type, and the one transaction posted with both comes back
C1_Witness ==
    /\ IsList("list_transactions")
    /\ req.in.category = Str("food")
    /\ req.in.tx_type = Str("income")
    /\ Len(store["transaction"]) = 2
    /\ Len(resp.items) = 1
    /\ \E i \in 1..Len(posted) :
          /\ posted[i].body.category = Str("food")
          /\ posted[i].body.type = Str("income")
          /\ posted[i].body.note = Str("lunch")
          /\ ItemsWithId(posted[i].id) # {}

C3_AcceptedLimitBounds ==
    /\ \A op \in {"list_transactions", "list_budgets", "list_categories"} :
          IsList(op) => Len(resp.items) <= LimitOf(req)
    /\ (req.op = "list_transactions" /\ ~TxLimit(req.in.limit).ok)
          => (resp.status = 422 /\ resp.kind # "items" /\ resp.items = <<>>)

\* C3, amended: an accepted limit of 0 or more bounds the number of items,
\* and GET /api/transactions rejects a limit outside 1..200
C3_NonNegativeLimitBounds ==
    /\ \A op \in {"list_transactions", "list_budgets", "list_categories"} :
          (IsList(op) /\ LimitOf(req) >= 0) => Len(resp.items) <= LimitOf(req)
    /\ (req.op = "list_transactions"
          /\ (LimitOf(req) > TxLimitMax \/ LimitOf(req) < TxLimitMin))
          => (resp.status = 422 /\ resp.kind # "items" /\ resp.items = <<>>)

\* C3 witness: two budgets are stored and the listing with limit=1 returns one
C3_Witness ==
    /\ IsList("list_budgets")
    /\ req.in.limit = Num(1)
    /\ Len(store["budget"]) = 2
    /\ Len(resp.items) = 1

\* C4: a POST /api/transactions with amount <= 0 is answered with a
\* validation error on amount and no id, and changes nothing in the store
C4_NonPositiveAmountRejected ==
    [][ ( /\ req'.op = "create_transaction"
          /\ req'.in.amount.k = "num"
          /\ req'.in.amount.n <= 0 )
        => ( /\ resp'.status = 422
             /\ "amount" \in resp'.errors
             /\ resp'.kind # "id"
             /\ resp'.id = Absent
             /\ store' = store
             /\ nextOid' = nextOid ) ]_vars

\* C4 witness: a transaction is stored and a POST with amount 0 was refused
C4_Witness ==
    /\ req.op = "create_transaction"
    /\ req.in.amount = Num(0)
    /\ resp.status = 422
    /\ store["transaction"] # <<>>

\* every budget document is within the schema's ranges
BudgetsInRange ==
    \A i \in 1..Len(store["budget"]) :
        LET d == store["budget"][i]
        IN  /\ d["month"].k = "num" /\ d["month"].n \in 1..12
            /\ d["year"].k = "num" /\ d["year"].n \in 2000..3000
            /\ d["amount"].k = "num" /\ d["amount"].n >= 0

\* C5: a POST /api/budgets with month outside 1..12 or year outside
\* 2000..3000 is rejected and stores nothing, and every stored budget has
\* month in 1..12, year in 2000..3000 and amount >= 0
C5_BudgetRanges ==
    /\ []BudgetsInRange
    /\ [][ ( /\ req'.op = "create_budget"
             /\ \/ req'.in.month.n \notin 1..12
                \/ req'.in.year.n \notin 2000..3000 )
           => ( /\ resp'.status = 422
                /\ resp'.kind # "id"
                /\ store' = store ) ]_vars

\* C5 witness: budgets are stored and a POST with month 13 was refused
C5_Witness ==
    /\ req.op = "create_budget"
    /\ req.in.month = Num(13)
    /\ resp.status = 422
    /\ Len(store["budget"]) = 2

\* the `database` texts of /test that report a store in working order
WorkingStates == {"Connected & Working", "Available"}

\* C6: GET /test answers 200 whatever the store's state, with at most 10
\* collection names; with no handle, or with list_collection_names
\* raising, `database` reports a failure and no collection is listed
C6_TestAlways200 ==
    req.op = "test" =>
        /\ resp.status = 200
        /\ resp.kind = "diag"
        /\ Len(resp.diag.collections) <= 10
        /\ (db = "none" \/ ~req.up) =>
              /\ resp.diag.database \notin WorkingStates
              /\ resp.diag.collections = <<>>
        /\ (db = "handle" /\ req.up) =>
              /\ resp.diag.database = "Connected & Working"
              /\ resp.diag.collections
                    = SubSeq(list_collection_names, 1, Len(resp.diag.collections))
              /\ Len(list_collection_names) >= 10 => Len(resp.diag.collections) = 10

\* C6 witness: the handle exists and list_collection_names raised
C6_Witness ==
    /\ req.op = "test"
    /\ db = "handle"
    /\ ~req.up
    /\ resp.status = 200
    /\ resp.diag.database = "Connected but Error: store unreachable"

\* C7: a category posted without `color` is listed (when the limit covers
\* the collection) with its name and a null color, and no listed item of
\* such a category carries a colour
C7_AbsentColorStaysNull ==
    IsList("list_categories") =>
        \A i \in 1..Len(posted) :
            (posted[i].op = "create_category" /\ posted[i].body.color = Absent)
            => /\ \A j \in ItemsWithId(posted[i].id) :
                     /\ resp.items[j]["name"] = posted[i].body.name
                     /\ "color" \in DOMAIN resp.items[j]
                            => resp.items[j]["color"] = Null
               /\ (LimitOf(req) >= Len(store["category"]))
                     => ItemsWithId(posted[i].id) # {}

\* C7 witness: a category posted without color is in the listing
C7_Witness ==
    /\ IsList("list_categories")
    /\ \E i \in 1..Len(posted) :
          /\ posted[i].op = "create_category"
          /\ posted[i].body.color = Absent
          /\ ItemsWithId(posted[i].id) # {}

IsPrefix(a, b) == Len(a) <= Len(b) /\ SubSeq(b, 1, Len(a)) = a

\* the identifiers assigned so far
IdsIn(st) ==
    UNION {{st[c][i]["_id"] : i \in 1..Len(st[c])} : c \in CollectionNames}

\* the collection a create endpoint owns
Own(op) ==
    CASE op = "create_transaction" -> "transaction"
      [] op = "create_budget"      -> "budget"
      [] op = "create_category"    -> "category"

CreateOps == {"create_transaction", "create_budget", "create_category"}
ListOps == {"list_transactions", "list_budgets", "list_categories"}

\* no two stored documents share an identifier
DistinctIds == Cardinality(IdsIn(store)) = TotalDocs

\* C8: the store is append-only.  A request that answers {id} is a create
\* that appended one document to its own collection, under an identifier no
\* document had, and touched no other collection; any other request leaves
\* the store as it was; identifiers never repeat.
C8_AppendOnly ==
    /\ []DistinctIds
    /\ [][ /\ \A c \in CollectionNames : IsPrefix(store[c], store'[c])
           /\ IF resp'.kind = "id"
              THEN /\ req'.op \in CreateOps
                   /\ Len(store'[Own(req'.op)]) = Len(store[Own(req'.op)]) + 1
                   /\ \A c \in CollectionNames \ {Own(req'.op)} :
                         store'[c] = store[c]
                   /\ LET new == store'[Own(req'.op)][Len(store'[Own(req'.op)])]
                      IN  /\ new["_id"] \notin IdsIn(store)
                          /\ resp'.id = OidStr(new["_id"])
              ELSE store' = store ]_vars

\* C8 witness: the same body was posted twice and is stored twice, under
\* two identifiers
C8_Witness ==
    /\ Len(posted) = 2
    /\ posted[1].body = posted[2].body
    /\ posted[1].op = posted[2].op
    /\ posted[1].id # posted[2].id
    /\ Len(store[Own(posted[1].op)]) = 2

\* C9: when the storage call of a create or list handler raises, the
\* answer is a 5xx error whose detail is the exception's message, with no
\* id and no items, and the store is as it was
C9_StorageFailureIs500 ==
    [][ ( /\ req'.op \in CreateOps \cup ListOps
          /\ resp'.status # 422
          /\ (db = "none" \/ ~req'.up) )
        => ( /\ resp'.status \in 500..599
             /\ resp'.kind = "error"
             /\ resp'.detail = StorageError(req'.up)
             /\ resp'.id = Absent
             /\ resp'.items = <<>>
             /\ store' = store ) ]_vars

\* C9 witness: budgets are stored, and a valid POST /api/budgets met a
\* store that did not answer
C9_Witness ==
    /\ req.op = "create_budget"
    /\ db = "handle"
    /\ ~req.up
    /\ resp.status = 500
    /\ resp.detail = "store unreachable"
    /\ store["budget"] # <<>>

\* C10: every filter parameter a listing is sent is applied: each item
\* equals it on that field
C10_SuppliedFilterApplies ==
    /\ (IsList("list_transactions") /\ req.in.category # Absent)
          => \A j \in 1..Len(resp.items) :
                resp.items[j]["category"] = req.in.category
    /\ IsList("list_budgets")
          => \A j \in 1..Len(resp.items) :
                \A p \in {"month", "year", "category"} :
                    req.in[p] # Absent => resp.items[j][p] = req.in[p]

=============================================================================
